---- MODULE Spec2Model ----
(***************************************************************************)
(* The create_podcast pipelines of the repository:                         *)
(*   "pdf"  - src/app/main.py             (POST /create-podcast/)          *)
(*   "html" - src/podcast_backend/main.py (POST /create_podcast)           *)
(* A request runs extraction and then six LLM stages.  The state is the    *)
(* shared download directory, and per request the position in the handler, *)
(* the handler's local variables and the HTTP response.                    *)
(***************************************************************************)
EXTENDS Integers, Sequences, FiniteSets, TLC

\* ---------------------------------------------------------------- bounds
NumReqs == 2        \* concurrent requests (SpecConc)
MaxUrlLen == 3      \* characters of a locator
MaxPdfPages == 6    \* pages of a downloaded PDF
MaxAbsLen == 2      \* tokens of the text of the abstract element

\* ------------------------------------------------------ program constants
max_pages == 5
DOWNLOAD_DIR == "arxiv_papers"

Reqs == 1..NumReqs
SingleReq == {1}

None == <<>>
Some(v) == <<v>>

VARIABLES
  pc,        \* pc[r]: the next operation of request r's handler
  variant,   \* variant[r]: which application serves r
  url,       \* url[r]: arxiv_url.url / input.url
  files,     \* the download directory: path -> request that wrote the file
  local,     \* local[r]: the local variables of create_podcast
  response,  \* response[r]: None, or Some(HTTP response)
  calls,     \* calls[r][stage]: remote calls issued by r for the stage
  trace,     \* trace[r]: the stages r has entered, in order
  error      \* error[r]: None, or Some([stage, kind, msg]) of the exception raised

vars == <<pc, variant, url, files, local, response, calls, trace, error>>

Stages == <<"extraction", "plan_generation", "plan_critique", "plan_regeneration",
            "script_generation", "script_critique", "script_regeneration">>
StageSet == {Stages[i] : i \in 1..Len(Stages)}
LLMStages == StageSet \ {"extraction"}

\* ------------------------------------------------------------- locators
Digits == {"1"}
UrlChars == {"1", ".", "a"}
Urls == UNION {[1..n -> UrlChars] : n \in 1..MaxUrlLen}
ConcUrls == {<<"1", ".", "1">>, <<"1", "1", ".", "1">>}

IsDigit(c) == c \in Digits

\* the end of the run of digits that starts at position i of u
DigitRunEnd(u, i) ==
  CHOOSE k \in i..Len(u) :
    /\ \A j \in i..k : IsDigit(u[j])
    /\ k = Len(u) \/ ~IsDigit(u[k + 1])

\* \d+\.\d+ matches at position i (both \d+ are greedy)
MatchAt(u, i) ==
  /\ IsDigit(u[i])
  /\ LET e == DigitRunEnd(u, i)
     IN /\ e + 2 <= Len(u)
        /\ u[e + 1] = "."
        /\ IsDigit(u[e + 2])

\* a buggy pattern, \d+, that accepts a run of digits without the dot
extract_arxiv_id_digits_only(u) ==
  IF \E i \in 1..Len(u) : IsDigit(u[i])
  THEN LET i == CHOOSE i \in 1..Len(u) :
                  IsDigit(u[i]) /\ \A j \in 1..(i - 1) : ~IsDigit(u[j])
       IN SubSeq(u, i, DigitRunEnd(u, i))
  ELSE None

\* re.search(r"(\d+\.\d+)", url): the leftmost match, None (<<>>) if none
extract_arxiv_id(u) ==
  IF \E i \in 1..Len(u) : MatchAt(u, i)
  THEN LET i == CHOOSE i \in 1..Len(u) :
                  MatchAt(u, i) /\ \A j \in 1..(i - 1) : ~MatchAt(u, j)
           e == DigitRunEnd(u, i)
       IN SubSeq(u, i, DigitRunEnd(u, e + 2))
  ELSE None

\* paper.download_pdf(dirpath=download_dir): the file name is derived from
\* the paper, so the same paper always gets the same path
PdfPathOf(arxiv_id) == [dir |-> DOWNLOAD_DIR, name |-> arxiv_id]

\* ----------------------------------------------------------------- PDFs
\* page.extract_text(): None, "" or some text
PageTexts == {None, Some(<<>>), Some(<<"t">>)}
Pdfs == {[corrupt |-> TRUE, pages |-> <<>>]} \cup
        {[corrupt |-> FALSE, pages |-> p] :
           p \in UNION {[1..n -> PageTexts] : n \in 0..MaxPdfPages}}
ConcPdfs == {[corrupt |-> TRUE, pages |-> <<>>],
             [corrupt |-> FALSE, pages |-> <<Some(<<"t">>)>>]}

\* page.extract_text() or ""
OrEmpty(x) == IF x = None THEN <<>> ELSE x[1]

RECURSIVE PagesText(_, _, _)
\* the loop of extract_text_from_pdf from page index i (0-based) on
PagesText(pages, i, limit) ==
  IF i >= Len(pages) \/ i >= limit THEN <<>>
  ELSE OrEmpty(pages[i + 1]) \o PagesText(pages, i + 1, limit)

\* ----------------------------------------------------------- exceptions
NoExc == [type |-> "none", msg |-> "", kind |-> "none"]
Exc(type, msg, kind) == [type |-> type, msg |-> msg, kind |-> kind]
NoVal == [kind |-> "none"]
Ok(v) == [ok |-> TRUE, val |-> v, exc |-> NoExc]
Err(e) == [ok |-> FALSE, val |-> NoVal, exc |-> e]

extract_text_from_pdf(pdf, limit) ==
  IF pdf.corrupt
  THEN Err(Exc("RuntimeError", "Error extracting text from PDF", "extract"))
  ELSE Ok(PagesText(pdf.pages, 0, limit))

\* ------------------------------------------------------- abstract pages
AbsTokens == {"Abstract: ", " ", "t"}
AbsTexts == UNION {[1..n -> AbsTokens] : n \in 0..MaxAbsLen}
\* requests.get(url): raises, or a page with a status and maybe the element
WebPages == {[raised |-> TRUE, status |-> 0, abstract |-> None],
             [raised |-> FALSE, status |-> 404, abstract |-> None],
             [raised |-> FALSE, status |-> 200, abstract |-> None]} \cup
            {[raised |-> FALSE, status |-> 200, abstract |-> Some(a)] : a \in AbsTexts}

RECURSIVE Replace(_, _)
\* str.replace(old, ''), on tokens
Replace(s, old) ==
  IF s = <<>> THEN <<>>
  ELSE IF Head(s) = old THEN Replace(Tail(s), old)
       ELSE <<Head(s)>> \o Replace(Tail(s), old)

RECURSIVE LStrip(_)
LStrip(s) == IF s # <<>> /\ Head(s) = " " THEN LStrip(Tail(s)) ELSE s
RECURSIVE RStrip(_)
RStrip(s) ==
  IF s # <<>> /\ s[Len(s)] = " " THEN RStrip(SubSeq(s, 1, Len(s) - 1)) ELSE s
\* str.strip()
Strip(s) == LStrip(RStrip(s))

extract_arxiv_content(page) ==
  IF page.raised
  THEN Err(Exc("ValueError", "Error extracting content from arXiv URL", "fetch"))
  ELSE IF page.status # 200
  THEN Err(Exc("ValueError", "Error extracting content from arXiv URL", "fetch"))
  ELSE IF page.abstract = None
  THEN Err(Exc("ValueError", "Error extracting content from arXiv URL", "markup"))
  ELSE Ok(Strip(Replace(page.abstract[1], "Abstract: ")))

\* ------------------------------------------------------- LLM responses
\* response.choices[0].message.content: a text is described by what the
\* decoders do with it: ws - it has surrounding whitespace; wf - json.loads
\* accepts it; val - the JSON value it denotes
Prose(i, ws) == [ws |-> ws, wf |-> FALSE, val |-> [kind |-> "prose", obj |-> i]]
JsonText(v) == [ws |-> FALSE, wf |-> TRUE, val |-> v]
Obj(rec) == [kind |-> "object", obj |-> rec]
JsonArray == [kind |-> "array", obj |-> <<>>]

PlanObjA(i) == [project_overview |-> i, tech_stack |-> i,
                implementation_steps |-> i, additional_requirements |-> i]
PlanObjB(i) == [title |-> i, description |-> i, segments |-> i]
CritiqueObjB(i) == [feedback |-> i, suggestions |-> i]
ScriptObj(speakers, spoken) ==
  [speakers |-> speakers,
   content |-> [k \in 1..Len(spoken) |-> [speaker |-> spoken[k], text |-> k]]]
GoodScript == ScriptObj(<<"S1", "S2">>, <<"S1", "S2">>)
OddScript == ScriptObj(<<"S1">>, <<"S1", "S2">>)

TextsA == {Prose(1, FALSE), Prose(2, TRUE), JsonText(JsonArray),
           JsonText(Obj(PlanObjA(1))), JsonText(Obj(PlanObjA(2))),
           JsonText(Obj([project_overview |-> 1])),
           JsonText(Obj(GoodScript)), JsonText(Obj(OddScript))}
TextsB == {Prose(1, FALSE),
           JsonText(Obj(PlanObjB(1))), JsonText(Obj(PlanObjB(2))),
           JsonText(Obj(CritiqueObjB(1))), JsonText(Obj(CritiqueObjB(2))),
           JsonText(Obj(GoodScript)), JsonText(Obj(OddScript))}
ConcTexts == {JsonText(Obj(PlanObjA(1))), JsonText(Obj(GoodScript))}

\* openai.ChatCompletion.create(...): raises, or answers with a text
LLMOutcomes(texts) ==
  {[raised |-> TRUE, text |-> Prose(0, FALSE)]} \cup
  {[raised |-> FALSE, text |-> t] : t \in texts}

\* ------------------------------------------------------ pydantic models
PodcastPlanA == {"project_overview", "tech_stack", "implementation_steps",
                 "additional_requirements"}
CritiqueA == {"feedback"}
PodcastScript == {"speakers", "content"}
PodcastPlanB == {"title", "description", "segments"}
CritiqueB == {"feedback", "suggestions"}
PodcastContent == {"speakers", "content"}

\* json.loads
json_loads(t) ==
  IF t.wf THEN Ok(t.val)
  ELSE Err(Exc("JSONDecodeError", "Expecting value", "parse"))

\* Model(**d): d must be a dict holding the required fields; other keys are
\* ignored
Construct(fields, v) ==
  IF v.kind # "object"
  THEN Err(Exc("TypeError", "argument after ** must be a mapping", "validation"))
  ELSE IF ~(fields \subseteq DOMAIN v.obj)
  THEN Err(Exc("ValidationError", "field required", "validation"))
  ELSE Ok([f \in fields |-> v.obj[f]])

\* a decoder that swallows the JSONDecodeError and builds the object from
\* whatever it has
DecodeALenient(fields, t, msg) ==
  IF ~json_loads(t).ok THEN Ok([f \in {} |-> 0])
  ELSE Construct(fields, json_loads(t).val)

\* try: Model(**json.loads(text)) except json.JSONDecodeError: raise ValueError(msg)
DecodeA(fields, t, msg) ==
  IF ~json_loads(t).ok THEN Err(Exc("ValueError", msg, "parse"))
  ELSE Construct(fields, json_loads(t).val)

\* str.strip() of a response text
StripText(t) == [t EXCEPT !.ws = FALSE]

\* the stage functions of src/app/main.py, applied to the LLM's outcome
LLMError == Exc("OpenAIError", "openai request failed", "llm")

generate_podcast_plan(o) ==
  IF o.raised THEN Err(LLMError)
  ELSE DecodeA(PodcastPlanA, o.text, "Failed to parse podcast plan JSON.")

critique_plan(o) ==
  IF o.raised THEN Err(LLMError) ELSE Ok([feedback |-> StripText(o.text)])

regenerate_plan(o) ==
  IF o.raised THEN Err(LLMError)
  ELSE DecodeA(PodcastPlanA, o.text, "Failed to parse regenerated podcast plan JSON.")

generate_podcast_script(o) ==
  IF o.raised THEN Err(LLMError)
  ELSE DecodeA(PodcastScript, o.text, "Failed to parse podcast script JSON.")

critique_script(o) ==
  IF o.raised THEN Err(LLMError) ELSE Ok([feedback |-> StripText(o.text)])

regenerate_script(o) ==
  IF o.raised THEN Err(LLMError)
  ELSE DecodeA(PodcastScript, o.text, "Failed to parse regenerated podcast script JSON.")

\* response_format.parse_raw(content)
parse_raw(fields, t) ==
  IF ~json_loads(t).ok
  THEN Err(Exc("ValidationError", "Expecting value", "parse"))
  ELSE IF ~Construct(fields, json_loads(t).val).ok
  THEN Err(Exc("ValidationError", "field required", "validation"))
  ELSE Construct(fields, json_loads(t).val)

\* call_openai of src/podcast_backend/main.py: every exception becomes a
\* ValueError
call_openai(o, response_format) ==
  IF o.raised
  THEN Err(Exc("ValueError", "Error communicating with OpenAI API", "llm"))
  ELSE IF ~parse_raw(response_format, o.text).ok
  THEN Err(Exc("ValueError", "Error communicating with OpenAI API",
               parse_raw(response_format, o.text).exc.kind))
  ELSE parse_raw(response_format, o.text)

\* ------------------------------------------------------------ responses
\* an error response that also returns what the earlier stages computed
HTTPExceptionWithPartial(r, status_code, detail) ==
  [status |-> status_code, detail |-> detail,
   podcast_plan |-> local[r].initial_plan]

\* HTTPException(status_code=..., detail=...)
HTTPException(r, status_code, detail) ==
  [status |-> status_code, detail |-> detail]

\* the dict returned by create_podcast of src/app/main.py
PodcastResponse(r, script) ==
  [status |-> 200,
   podcast_plan |-> local[r].refined_plan[1],
   podcast_script |-> script,
   critique |-> local[r].script_critique[1].feedback]

\* FinalPodcastScript(...) returned by create_podcast of podcast_backend
FinalPodcastScript(r) ==
  [status |-> 200,
   title |-> local[r].refined_plan[1].title,
   description |-> local[r].refined_plan[1].description,
   speakers |-> local[r].initial_script[1].speakers,
   script |-> local[r].initial_script[1].content,
   duration_minutes |-> "12.5"]

\* ---------------------------------------------------------------- state
NoLocals ==
  [pdf_path |-> None, content |-> None, initial_plan |-> None,
   plan_critique |-> None, refined_plan |-> None, initial_script |-> None,
   script_critique |-> None, final_script |-> None, text |-> None]

Init ==
  /\ pc = [r \in Reqs |-> "idle"]
  /\ variant = [r \in Reqs |-> "pdf"]
  /\ url = [r \in Reqs |-> <<"a">>]
  /\ files = [p \in {} |-> 0]
  /\ local = [r \in Reqs |-> NoLocals]
  /\ response = [r \in Reqs |-> None]
  /\ calls = [r \in Reqs |-> [s \in StageSet |-> 0]]
  /\ trace = [r \in Reqs |-> <<>>]
  /\ error = [r \in Reqs |-> None]

\* an exception handler that runs the failed stage once more
RaiseAfterRetry(r, stage, status_code, e) ==
  /\ pc' = [pc EXCEPT ![r] = IF calls[r][stage] = 0 /\ pc[r] = stage
                             THEN stage ELSE "done"]
  /\ response' = [response EXCEPT ![r] =
                    IF calls[r][stage] = 0 /\ pc[r] = stage THEN None
                    ELSE Some(HTTPException(r, status_code, e.msg))]
  /\ error' = [error EXCEPT ![r] = Some([stage |-> stage, kind |-> e.kind, msg |-> e.msg])]

\* except ... as e: raise HTTPException(status_code=..., detail=str(e))
Raise(r, stage, status_code, e) ==
  /\ pc' = [pc EXCEPT ![r] = "done"]
  /\ response' = [response EXCEPT ![r] = Some(HTTPException(r, status_code, e.msg))]
  /\ error' = [error EXCEPT ![r] = Some([stage |-> stage, kind |-> e.kind, msg |-> e.msg])]

\* the server hands a request to create_podcast
Receive(r, v, urls) ==
  /\ pc[r] = "idle"
  /\ \E u \in urls : url' = [url EXCEPT ![r] = u]
  /\ variant' = [variant EXCEPT ![r] = v]
  /\ pc' = [pc EXCEPT ![r] = IF v = "pdf" THEN "download" ELSE "fetch"]
  /\ UNCHANGED <<files, local, response, calls, trace, error>>

\* ------------------------------------------------- src/app/main.py steps
\* Step 1: pdf_path = download_arxiv_paper(arxiv_url.url, DOWNLOAD_DIR)
DownloadArxivPaper(r) ==
  /\ pc[r] = "download"
  /\ trace' = [trace EXCEPT ![r] = Append(@, "extraction")]
  /\ LET arxiv_id == extract_arxiv_id(url[r])
     IN IF arxiv_id = None
        THEN /\ Raise(r, "extraction", 500,
                      Exc("ValueError", "Invalid arXiv URL", "invalid_locator"))
             /\ UNCHANGED <<files, local, calls>>
        ELSE /\ calls' = [calls EXCEPT ![r]["extraction"] = @ + 1]
             /\ \E downloaded \in BOOLEAN :
                  IF downloaded
                  THEN /\ files' = [p \in DOMAIN files \cup {PdfPathOf(arxiv_id)} |->
                                      IF p = PdfPathOf(arxiv_id) THEN r ELSE files[p]]
                       /\ local' = [local EXCEPT ![r].pdf_path = Some(PdfPathOf(arxiv_id))]
                       /\ pc' = [pc EXCEPT ![r] = "extract"]
                       /\ UNCHANGED <<response, error>>
                  ELSE /\ Raise(r, "extraction", 500,
                                Exc("RuntimeError", "Error downloading paper", "download"))
                       /\ UNCHANGED <<files, local>>
  /\ UNCHANGED <<variant, url>>

\* Step 2: content = extract_text_from_pdf(pdf_path)
ExtractTextFromPdf(r, pdfs) ==
  /\ pc[r] = "extract"
  /\ \E pdf \in pdfs :
       LET res == IF local[r].pdf_path[1] \in DOMAIN files
                  THEN extract_text_from_pdf(pdf, max_pages)
                  ELSE Err(Exc("RuntimeError", "Error extracting text from PDF",
                               "extract"))
       IN IF res.ok
          THEN /\ local' = [local EXCEPT ![r].content = Some(res.val)]
               /\ pc' = [pc EXCEPT ![r] = "plan_generation"]
               /\ UNCHANGED <<response, error>>
          ELSE /\ Raise(r, "extraction", 500, res.exc)
               /\ UNCHANGED local
  /\ UNCHANGED <<variant, url, files, calls, trace>>

\* one LLM stage of create_podcast: the call, the assignment of its result
\* and the move to the next statement, or the exception
LLMStage(r, stage, var, o, res, next, status_code) ==
  /\ trace' = [trace EXCEPT ![r] = Append(@, stage)]
  /\ calls' = [calls EXCEPT ![r][stage] = @ + 1]
  /\ IF res.ok
     THEN /\ local' = [local EXCEPT ![r][var] = Some(res.val),
                                    ![r].text = Some(o.text)]
          /\ pc' = [pc EXCEPT ![r] = next]
          /\ UNCHANGED <<response, error>>
     ELSE /\ local' = [local EXCEPT ![r].text =
                         IF o.raised THEN None ELSE Some(o.text)]
          /\ Raise(r, stage, status_code, res.exc)
  /\ UNCHANGED <<variant, url, files>>

\* Step 3: initial_plan = generate_podcast_plan(content)
GeneratePodcastPlan(r, texts) ==
  /\ pc[r] = "plan_generation" /\ variant[r] = "pdf"
  /\ \E o \in LLMOutcomes(texts) :
       LLMStage(r, "plan_generation", "initial_plan", o,
                generate_podcast_plan(o), "plan_critique", 500)

\* Step 4: plan_critique = critique_plan(initial_plan)
CritiquePlan(r, texts) ==
  /\ pc[r] = "plan_critique" /\ variant[r] = "pdf"
  /\ \E o \in LLMOutcomes(texts) :
       LLMStage(r, "plan_critique", "plan_critique", o,
                critique_plan(o), "plan_regeneration", 500)

\* Step 5: refined_plan = regenerate_plan(initial_plan, plan_critique)
RegeneratePlan(r, texts) ==
  /\ pc[r] = "plan_regeneration" /\ variant[r] = "pdf"
  /\ \E o \in LLMOutcomes(texts) :
       LLMStage(r, "plan_regeneration", "refined_plan", o,
                regenerate_plan(o), "script_generation", 500)

\* Step 6: initial_script = generate_podcast_script(refined_plan)
GeneratePodcastScript(r, texts) ==
  /\ pc[r] = "script_generation" /\ variant[r] = "pdf"
  /\ \E o \in LLMOutcomes(texts) :
       LLMStage(r, "script_generation", "initial_script", o,
                generate_podcast_script(o), "script_critique", 500)

\* Step 7: script_critique = critique_script(initial_script)
CritiqueScript(r, texts) ==
  /\ pc[r] = "script_critique" /\ variant[r] = "pdf"
  /\ \E o \in LLMOutcomes(texts) :
       LLMStage(r, "script_critique", "script_critique", o,
                critique_script(o), "script_regeneration", 500)

\* Step 8: final_script = regenerate_script(initial_script, script_critique)
RegenerateScript(r, texts) ==
  /\ pc[r] = "script_regeneration" /\ variant[r] = "pdf"
  /\ \E o \in LLMOutcomes(texts) :
       LLMStage(r, "script_regeneration", "final_script", o,
                regenerate_script(o), "cleanup", 500)

\* if os.path.exists(pdf_path): ... else return {...}
CleanupCheck(r) ==
  /\ pc[r] = "cleanup"
  /\ IF local[r].pdf_path[1] \in DOMAIN files
     THEN /\ pc' = [pc EXCEPT ![r] = "remove"]
          /\ UNCHANGED response
     ELSE /\ pc' = [pc EXCEPT ![r] = "done"]
          /\ response' = [response EXCEPT ![r] =
                            Some(PodcastResponse(r, local[r].final_script[1]))]
  /\ UNCHANGED <<variant, url, files, local, calls, trace, error>>

\* os.remove(pdf_path); return {...}
CleanupRemove(r) ==
  /\ pc[r] = "remove"
  /\ IF local[r].pdf_path[1] \in DOMAIN files
     THEN /\ files' = [p \in DOMAIN files \ {local[r].pdf_path[1]} |-> files[p]]
          /\ pc' = [pc EXCEPT ![r] = "done"]
          /\ response' = [response EXCEPT ![r] =
                            Some(PodcastResponse(r, local[r].final_script[1]))]
          /\ UNCHANGED error
     ELSE /\ Raise(r, "cleanup", 500,
                   Exc("FileNotFoundError", "No such file or directory", "cleanup"))
          /\ UNCHANGED files
  /\ UNCHANGED <<variant, url, local, calls, trace>>

\* ------------------------------------- src/podcast_backend/main.py steps
\* Step 1: abstract = extract_arxiv_content(input.url)
ExtractArxivContent(r) ==
  /\ pc[r] = "fetch"
  /\ trace' = [trace EXCEPT ![r] = Append(@, "extraction")]
  /\ calls' = [calls EXCEPT ![r]["extraction"] = @ + 1]
  /\ \E page \in WebPages :
       LET res == extract_arxiv_content(page)
       IN IF res.ok
          THEN /\ local' = [local EXCEPT ![r].content = Some(res.val)]
               /\ pc' = [pc EXCEPT ![r] = "plan_generation"]
               /\ UNCHANGED <<response, error>>
          ELSE /\ Raise(r, "extraction", 400, res.exc)
               /\ UNCHANGED local
  /\ UNCHANGED <<variant, url, files>>

\* Step 2: podcast_plan = call_openai(plan_messages, PodcastPlan)
PlanPodcast(r) ==
  /\ pc[r] = "plan_generation" /\ variant[r] = "html"
  /\ \E o \in LLMOutcomes(TextsB) :
       LLMStage(r, "plan_generation", "initial_plan", o,
                call_openai(o, PodcastPlanB), "plan_critique", 500)

\* Step 3: critique = call_openai(critique_messages, Critique)
CritiquePodcastPlan(r) ==
  /\ pc[r] = "plan_critique" /\ variant[r] = "html"
  /\ \E o \in LLMOutcomes(TextsB) :
       LLMStage(r, "plan_critique", "plan_critique", o,
                call_openai(o, CritiqueB), "plan_regeneration", 500)

\* Step 4: revised_podcast_plan = call_openai(revised_plan_messages, PodcastPlan)
RevisePodcastPlan(r) ==
  /\ pc[r] = "plan_regeneration" /\ variant[r] = "html"
  /\ \E o \in LLMOutcomes(TextsB) :
       LLMStage(r, "plan_regeneration", "refined_plan", o,
                call_openai(o, PodcastPlanB), "script_generation", 500)

\* Step 5: podcast_content = call_openai(content_messages, PodcastContent)
GeneratePodcastContent(r) ==
  /\ pc[r] = "script_generation" /\ variant[r] = "html"
  /\ \E o \in LLMOutcomes(TextsB) :
       LLMStage(r, "script_generation", "initial_script", o,
                call_openai(o, PodcastContent), "script_critique", 500)

\* Step 6: content_critique = call_openai(content_critique_messages, Critique)
CritiquePodcastContent(r) ==
  /\ pc[r] = "script_critique" /\ variant[r] = "html"
  /\ \E o \in LLMOutcomes(TextsB) :
       LLMStage(r, "script_critique", "script_critique", o,
                call_openai(o, CritiqueB), "script_regeneration", 500)

\* Step 7 and the return: final_script_content is the raw text of the call;
\* the response is built from revised_podcast_plan and podcast_content
RegenerateFinalScript(r) ==
  /\ pc[r] = "script_regeneration" /\ variant[r] = "html"
  /\ trace' = [trace EXCEPT ![r] = Append(@, "script_regeneration")]
  /\ calls' = [calls EXCEPT ![r]["script_regeneration"] = @ + 1]
  /\ \E o \in LLMOutcomes(TextsB) :
       IF o.raised
       THEN /\ Raise(r, "script_regeneration", 500,
                     Exc("Exception", "Error generating final script", "llm"))
            /\ local' = [local EXCEPT ![r].text = None]
       ELSE /\ local' = [local EXCEPT ![r].final_script = Some(o.text),
                                      ![r].text = Some(o.text)]
            /\ pc' = [pc EXCEPT ![r] = "done"]
            /\ response' = [response EXCEPT ![r] = Some(FinalPodcastScript(r))]
            /\ UNCHANGED error
  /\ UNCHANGED <<variant, url, files>>

\* ------------------------------------------------------- specifications
PdfStep(r, pdfs, texts) ==
  \/ DownloadArxivPaper(r)
  \/ ExtractTextFromPdf(r, pdfs)
  \/ GeneratePodcastPlan(r, texts)
  \/ CritiquePlan(r, texts)
  \/ RegeneratePlan(r, texts)
  \/ GeneratePodcastScript(r, texts)
  \/ CritiqueScript(r, texts)
  \/ RegenerateScript(r, texts)
  \/ CleanupCheck(r)
  \/ CleanupRemove(r)

HtmlStep(r) ==
  \/ ExtractArxivContent(r)
  \/ PlanPodcast(r)
  \/ CritiquePodcastPlan(r)
  \/ RevisePodcastPlan(r)
  \/ GeneratePodcastContent(r)
  \/ CritiquePodcastContent(r)
  \/ RegenerateFinalScript(r)

\* one request, served by either application
Next ==
  \E r \in SingleReq :
    \/ Receive(r, "pdf", Urls)
    \/ Receive(r, "html", Urls)
    \/ PdfStep(r, Pdfs, TextsA)
    \/ HtmlStep(r)

Spec == Init /\ [][Next]_vars

\* NumReqs requests served concurrently by src/app/main.py
NextConc ==
  \E r \in Reqs :
    \/ Receive(r, "pdf", ConcUrls)
    \/ PdfStep(r, ConcPdfs, ConcTexts)

SpecConc == Init /\ [][NextConc]_vars

\* ----------------------------------------------------------- properties
Last(s) == s[Len(s)]
IsPrefix(s, t) == Len(s) <= Len(t) /\ \A i \in 1..Len(s) : s[i] = t[i]
StageIndex(s) == CHOOSE i \in 1..Len(Stages) : Stages[i] = s
LaterStages(s) == {t \in StageSet : StageIndex(t) > StageIndex(s)}
Occurrences(tr, s) == Cardinality({i \in 1..Len(tr) : tr[i] = s})
Finished(r) == pc[r] = "done" /\ response[r] # None
Succeeded(r) == Finished(r) /\ response[r][1].status = 200

\* the local variable a stage assigns
StageVar(s) ==
  CASE s = "extraction" -> "content"
    [] s = "plan_generation" -> "initial_plan"
    [] s = "plan_critique" -> "plan_critique"
    [] s = "plan_regeneration" -> "refined_plan"
    [] s = "script_generation" -> "initial_script"
    [] s = "script_critique" -> "script_critique"
    [] s = "script_regeneration" -> "final_script"

\* the locator contains a match of \d+\.\d+
HasPaperId(u) ==
  \E i, j, k \in 1..Len(u) :
    /\ i <= j /\ j + 2 <= k
    /\ \A x \in i..j : u[x] \in Digits
    /\ u[j + 1] = "."
    /\ \A x \in (j + 2)..k : u[x] \in Digits

\* C1: in the PDF variant, once a run has ended, the temporary PDF file that
\* its download created no longer exists, whether the run succeeded or failed.
C1_TempFileRemoved ==
  \A r \in Reqs :
    (variant[r] = "pdf" /\ pc[r] = "done" /\ local[r].pdf_path # None)
      => local[r].pdf_path[1] \notin DOMAIN files

\* C2: the stages are entered only in the order extraction, plan generation,
\* plan critique, plan regeneration, script generation, script critique,
\* script regeneration; a stage is entered only after its predecessor has
\* produced its result, no stage is re-entered, and each stage issues its
\* remote call at most once.
C2_StagesInOrder ==
  \A r \in Reqs :
    /\ IsPrefix(trace[r], Stages)
    /\ \A s \in StageSet :
         /\ calls[r][s] <= 1
         /\ calls[r][s] <= Occurrences(trace[r], s)
    /\ \A i \in 1..(Len(trace[r]) - 1) : local[r][StageVar(trace[r][i])] # None

C2_Witness ==
  \E r \in Reqs :
    /\ Succeeded(r)
    /\ trace[r] = Stages
    /\ \A s \in StageSet : calls[r][s] = 1

\* C3: when a stage fails, the run ends there: no later stage is entered or
\* called, the failed stage is entered and called at most once, and the
\* caller gets an error response holding only a status and a detail message,
\* none of the plans, critiques or scripts of the earlier stages.
C3_FailureAborts ==
  \A r \in Reqs :
    (error[r] # None /\ error[r][1].stage \in StageSet) =>
      /\ Finished(r)
      /\ response[r][1].status >= 400
      /\ DOMAIN response[r][1] = {"status", "detail"}
      /\ response[r][1].detail = error[r][1].msg
      /\ Last(trace[r]) = error[r][1].stage
      /\ Occurrences(trace[r], error[r][1].stage) = 1
      /\ calls[r][error[r][1].stage] <= 1
      /\ \A t \in LaterStages(error[r][1].stage) :
           calls[r][t] = 0 /\ local[r][StageVar(t)] = None

C3_Witness ==
  \E r \in Reqs :
    /\ Finished(r)
    /\ error[r] # None
    /\ error[r][1].stage = "script_critique"
    /\ local[r].refined_plan # None
    /\ local[r].initial_script # None

\* C4: a successful run returns the plan of plan regeneration, the script of
\* script regeneration and the critique of the script-critique stage.
C4_ReturnsLastStageOutputs ==
  \A r \in Reqs :
    Succeeded(r) =>
      IF variant[r] = "pdf"
      THEN /\ response[r][1].podcast_plan = local[r].refined_plan[1]
           /\ response[r][1].podcast_script = local[r].final_script[1]
           /\ response[r][1].critique = local[r].script_critique[1].feedback
      ELSE /\ response[r][1].title = local[r].refined_plan[1].title
           /\ response[r][1].description = local[r].refined_plan[1].description
           /\ parse_raw(PodcastContent, local[r].final_script[1]).ok =>
                /\ response[r][1].speakers =
                     parse_raw(PodcastContent, local[r].final_script[1]).val.speakers
                /\ response[r][1].script =
                     parse_raw(PodcastContent, local[r].final_script[1]).val.content
           /\ "critique" \in DOMAIN response[r][1]

\* C5: a locator that does not match the paper-ID pattern is answered with a
\* client error (4xx); a failure of extraction, of an LLM call or of response
\* parsing is answered with a server error (5xx) whose detail is the message
\* of the exception.
C5_StatusClasses ==
  \A r \in Reqs :
    (Finished(r) /\ error[r] # None) =>
      /\ error[r][1].kind = "invalid_locator" =>
           response[r][1].status \in 400..499
      /\ error[r][1].kind \in {"download", "extract", "fetch", "markup",
                               "llm", "parse", "validation"} =>
           /\ response[r][1].status \in 500..599
           /\ response[r][1].detail = error[r][1].msg

\* C6: in the PDF variant, a run whose locator contains no paper ID ends in
\* extraction with an error, having issued no LLM call, no paper search and
\* no PDF download.
C6_NoIdNoCalls ==
  \A r \in Reqs :
    (variant[r] = "pdf" /\ pc[r] = "done" /\ ~HasPaperId(url[r])) =>
      /\ \A s \in StageSet : calls[r][s] = 0
      /\ trace[r] = <<"extraction">>
      /\ local[r].pdf_path = None
      /\ error[r] # None
      /\ error[r][1].stage = "extraction"
      /\ response[r] # None
      /\ response[r][1].status >= 400

C6_Witness ==
  \E r \in Reqs :
    /\ variant[r] = "pdf"
    /\ Finished(r)
    /\ ~HasPaperId(url[r])
    /\ \E i \in 1..Len(url[r]) : url[r][i] \in Digits

\* C7: extraction never succeeds with empty content, and the plan-generation
\* LLM call is never issued with empty content.
C7_NoEmptyContent ==
  \A r \in Reqs :
    /\ local[r].content # None => local[r].content[1] # <<>>
    /\ calls[r]["plan_generation"] > 0 => local[r].content[1] # <<>>

\* C8: concurrent requests of the PDF variant use distinct temporary file
\* names: two requests in flight never hold the same path, and a file that a
\* request has downloaded and not yet read is still there and still the one
\* that request wrote.
C8_DistinctTempFiles ==
  /\ \A r1, r2 \in Reqs :
       (r1 # r2 /\ pc[r1] \notin {"idle", "done"} /\ pc[r2] \notin {"idle", "done"}
          /\ local[r1].pdf_path # None /\ local[r2].pdf_path # None)
         => local[r1].pdf_path # local[r2].pdf_path
  /\ \A r \in Reqs :
       pc[r] = "extract" =>
         /\ local[r].pdf_path[1] \in DOMAIN files
         /\ files[local[r].pdf_path[1]] = r

\* the script a successful response carries
ReturnedScript(r) ==
  IF variant[r] = "pdf" THEN response[r][1].podcast_script
  ELSE [speakers |-> response[r][1].speakers, content |-> response[r][1].script]

\* C9: every entry of the content of a returned script names a speaker that
\* is in the script's speakers list.
C9_SpeakerInvariant ==
  \A r \in Reqs :
    Succeeded(r) =>
      \A i \in 1..Len(ReturnedScript(r).content) :
        \E j \in 1..Len(ReturnedScript(r).speakers) :
          ReturnedScript(r).speakers[j] = ReturnedScript(r).content[i].speaker

\* the stages that decode the response text as JSON
DecodingStages(v) ==
  IF v = "pdf"
  THEN {"plan_generation", "plan_regeneration", "script_generation",
        "script_regeneration"}
  ELSE {"plan_generation", "plan_critique", "plan_regeneration",
        "script_generation", "script_critique"}

\* the last stage entered decodes its response, and the response text it
\* received is not JSON
NonJsonAtDecodingStage(r) ==
  /\ trace[r] # <<>>
  /\ Last(trace[r]) \in DecodingStages(variant[r])
  /\ local[r].text # None
  /\ ~local[r].text[1].wf

\* C10: a stage that decodes the LLM's text as JSON fails with a parse error
\* when the text is not JSON: it assigns no object, the run ends with an
\* error response and no later stage is called.
C10_NonJsonFails ==
  \A r \in Reqs :
    NonJsonAtDecodingStage(r) =>
      /\ Finished(r)
      /\ response[r][1].status = 500
      /\ error[r] # None
      /\ error[r][1].stage = Last(trace[r])
      /\ error[r][1].kind = "parse"
      /\ local[r][StageVar(Last(trace[r]))] = None
      /\ \A t \in LaterStages(Last(trace[r])) : calls[r][t] = 0

C10_Witness ==
  \E r \in Reqs :
    /\ NonJsonAtDecodingStage(r)
    /\ Last(trace[r]) = "script_generation"
    /\ local[r].refined_plan # None
    /\ Finished(r)

====
